---- MODULE Spec2Model ----
(***************************************************************************)
(* VectoMorph: a browser application that converts raster images to SVG.   *)
(*                                                                         *)
(* The module models                                                       *)
(*   - the two versions of the page component (single-file page.tsx and    *)
(*     the batch page) as state machines over React state    (Spec),       *)
(*   - imageProcessingService.processImage as a sequence of asynchronous   *)
(*     steps over browser objects                            (SpecProcess),*)
(*   - the FileDropzone component in isolation               (SpecDropzone)*)
(*   - the file-name functions of fileHandlingService         (SpecNames). *)
(*                                                                         *)
(* Text is modelled in two ways.  File names, MIME types and accepted-type *)
(* entries are sequences of one-character strings, so that toLowerCase,    *)
(* startsWith, endsWith, includes, lastIndexOf and the file-name regular   *)
(* expression are computed character by character.  SVG markup is a        *)
(* sequence of markup chunks (see Chunks); the empty sequence is ''.       *)
(***************************************************************************)
EXTENDS Integers, Sequences, FiniteSets, TLC

VARIABLES
    page,               \* which page component is mounted: "single" or "batch"
    appState,           \* useState<AppState> of the page
    currentSession,     \* useState<ConversionSession | null> of the page
    processingMessage,  \* useState<string> of the page
    runs,               \* handleFileSelect invocations suspended at their await
    last,               \* history: the latest settled processImage call of a page
    did,                \* history: the page handler that made the latest step
    proc,               \* one processImage call of imageProcessingService
    dz,                 \* FileDropzone: props and component state
    sel,                \* FileDropzone: history of the selection the latest event handled
    ev,                 \* FileDropzone: history of the latest event and what it called
    fn,                 \* a call of a fileHandlingService function and its result
    dl,                 \* DownloadButton: props, state, timer and service calls
    li                  \* LoadingIndicator: props, state and interval timer

vars == <<page, appState, currentSession, processingMessage, runs, last, did,
          proc, dz, sel, ev, fn, dl, li>>

pageVars == <<page, appState, currentSession, processingMessage, runs, last, did>>

(***************************************************************************)
(* Bounds of the model.                                                    *)
(***************************************************************************)
MaxNameLen == 5      \* longest file name enumerated for the name functions
MaxFiles == 2        \* most files in one selection
MaxRuns == 2         \* most handleFileSelect invocations started on a page
MaxSvgLen == 4       \* most chunks in a tracer output
MaxTypes == 2         \* most entries in a list of allowed types
MaxClicks == 3        \* most clicks on a DownloadButton

(***************************************************************************)
(* JavaScript values.                                                      *)
(***************************************************************************)
Null == [null |-> TRUE]
Some(v) == [null |-> FALSE, val |-> v]
IsNull(x) == x.null

InSeq(x, s) == \E i \in 1..Len(s) : s[i] = x

(***************************************************************************)
(* Character strings.                                                      *)
(***************************************************************************)
Str(n, alphabet) == UNION {[1..k -> alphabet] : k \in 0..n}

\* String.prototype.toLowerCase, for the letters the model's names use
LowerChar(c) ==
    CASE c = "A" -> "a"
      [] c = "G" -> "g"
      [] c = "N" -> "n"
      [] c = "P" -> "p"
      [] OTHER -> c

toLowerCase(s) == [i \in 1..Len(s) |-> LowerChar(s[i])]

startsWith(s, p) ==
    /\ Len(p) <= Len(s)
    /\ SubSeq(s, 1, Len(p)) = p

endsWith(s, p) ==
    /\ Len(p) <= Len(s)
    /\ SubSeq(s, Len(s) - Len(p) + 1, Len(s)) = p

includes(s, p) ==
    \E i \in 1..(Len(s) - Len(p) + 1) : SubSeq(s, i, i + Len(p) - 1) = p

\* String.prototype.lastIndexOf for a one-character needle, 0-based, -1 if absent
lastIndexOf(s, c) ==
    IF \E i \in 1..Len(s) : s[i] = c
    THEN (CHOOSE i \in 1..Len(s) : s[i] = c /\ \A j \in (i+1)..Len(s) : s[j] # c) - 1
    ELSE -1

\* String.prototype.substring(start), 0-based
substring(s, start) == SubSeq(s, start + 1, Len(s))

(***************************************************************************)
(* fileHandlingService: file names.                                        *)
(***************************************************************************)
getFileExtension(fileName) ==
    LET lastDotIndex == lastIndexOf(fileName, ".")
    IN  IF lastDotIndex # -1 THEN substring(fileName, lastDotIndex) ELSE <<>>

\* [^/.] of the file-name regular expression
NotSlashDot(c) == c # "/" /\ c # "."

\* Where /\.[^/.]+$/ matches in s: the leftmost i (1-based) with s[i] = "."
\* followed, up to the end of s, by one or more characters other than "/"
\* and "."; 0 when the expression does not match.
ExtMatch_anyDot(s) ==
    LET hits == {i \in 1..Len(s) :
                    /\ s[i] = "."
                    /\ i < Len(s)
                    /\ \A j \in (i+1)..Len(s) : s[j] # "/"}
    IN  IF hits = {} THEN 0 ELSE CHOOSE i \in hits : \A k \in hits : i <= k

ExtMatch(s) ==
    LET hits == {i \in 1..Len(s) :
                    /\ s[i] = "."
                    /\ i < Len(s)
                    /\ \A j \in (i+1)..Len(s) : NotSlashDot(s[j])}
    IN  IF hits = {} THEN 0 ELSE CHOOSE i \in hits : \A k \in hits : i <= k

\* s.replace(/\.[^/.]+$/, '')
StripExtension(s) ==
    LET m == ExtMatch(s)
    IN  IF m = 0 THEN s ELSE SubSeq(s, 1, m - 1)

DotSvg == <<".", "s", "v", "g">>

generateSvgFileName(originalFileName) ==
    LET nameWithoutExtension == StripExtension(originalFileName)
    IN  nameWithoutExtension \o DotSvg

\* SVGPreview: displayName, and the download attribute of its button
displayName(originalFileName) == StripExtension(originalFileName)

previewDownloadName(originalFileName) == displayName(originalFileName) \o DotSvg

\* the variant cuts at the last "." whatever follows it
gridDownloadName_lastDot(fileName) ==
    LET lastDotIndex == lastIndexOf(fileName, ".")
    IN  (IF lastDotIndex # -1 THEN SubSeq(fileName, 1, lastDotIndex) ELSE fileName) \o DotSvg

\* SVGGrid.handleDownloadSingle without onDownloadSingle: link.download
gridDownloadName(fileName) == StripExtension(fileName) \o DotSvg

\* batch page, Download All: link.download of one result
downloadAllName(fileName) == StripExtension(fileName) \o DotSvg

(***************************************************************************)
(* SpecNames: the name functions applied to every name up to MaxNameLen.   *)
(***************************************************************************)
NameAlphabet == {"a", "b", ".", "/"}
Names == Str(MaxNameLen, NameAlphabet)

NamesIdle == fn = [pc |-> "idle"]

\* the other components' variables while a specification does not use them
PageIdle ==
    /\ page = "none"
    /\ appState = Null
    /\ currentSession = Null
    /\ processingMessage = ""
    /\ runs = <<>>
    /\ last = Null
    /\ did = "none"
ProcIdle == proc = [pc |-> "idle"]
DzIdle == dz = [mounted |-> FALSE] /\ sel = Null /\ ev = Null
DlIdle == dl = [mounted |-> FALSE]
LiIdle == li = [mounted |-> FALSE]

InitNames ==
    /\ PageIdle /\ ProcIdle /\ DzIdle /\ DlIdle /\ LiIdle
    /\ \E n \in Names : fn = [pc |-> "given", name |-> n]

ApplyGenerateSvgFileName ==
    /\ fn.pc = "given"
    /\ fn' = [pc |-> "named", name |-> fn.name,
              svgFileName |-> generateSvgFileName(fn.name)]
    /\ UNCHANGED <<pageVars, proc, dz, sel, ev, dl, li>>

\* the download name each component gives the same original name
ApplyDownloadNames ==
    /\ fn.pc = "given"
    /\ fn' = [pc |-> "downloads", name |-> fn.name,
              button |-> generateSvgFileName(fn.name),
              preview |-> previewDownloadName(fn.name),
              grid |-> gridDownloadName(fn.name),
              all |-> downloadAllName(fn.name)]
    /\ UNCHANGED <<pageVars, proc, dz, sel, ev, dl, li>>

NextNames ==
    \/ ApplyGenerateSvgFileName
    \/ ApplyDownloadNames

SpecNames == InitNames /\ [][NextNames]_vars

(***************************************************************************)
(* C8: for every original file name generateSvgFileName returns the name   *)
(* with its extension replaced by ".svg".  The extension of a name is what *)
(* follows its last "." -- provided something follows it and that contains *)
(* no "/"; a name without such an extension (no ".", a trailing ".", the   *)
(* empty name) gets ".svg" appended.  Only the last extension is replaced, *)
(* and the result always ends in ".svg".                                   *)
(***************************************************************************)
HasExtension(n) ==
    LET d == lastIndexOf(n, ".") + 1
    IN  /\ d >= 1
        /\ d < Len(n)
        /\ \A j \in (d+1)..Len(n) : n[j] # "/"

StemOf(n) == SubSeq(n, 1, lastIndexOf(n, "."))

C8_SvgNameReplacesLastExtension ==
    fn.pc = "named" =>
        /\ endsWith(fn.svgFileName, DotSvg)
        /\ HasExtension(fn.name) => fn.svgFileName = StemOf(fn.name) \o DotSvg
        /\ ~HasExtension(fn.name) => fn.svgFileName = fn.name \o DotSvg
        /\ fn.name = <<>> => fn.svgFileName = DotSvg

\* 'a.b.a' gives 'a.b.svg': a name with two extensions has been renamed
C8_Witness ==
    /\ fn.pc = "named"
    /\ fn.name = <<"a", ".", "b", ".", "a">>
    /\ fn.svgFileName = <<"a", ".", "b", ".", "s", "v", "g">>

(***************************************************************************)
(* Files and the application configuration.                                *)
(***************************************************************************)
File(name, type, size) == [null |-> FALSE, name |-> name, type |-> type, size |-> size]

\* appConfig.maxFileSize, and ImageProcessingServiceImpl.maxFileSize
maxFileSize == 10 * 1024 * 1024

\* appConfig.supportedFormats
supportedFormats ==
    << <<".", "p", "n", "g">>, <<".", "j", "p", "g">>, <<".", "j", "p", "e", "g">>,
       <<".", "b", "m", "p">>, <<".", "g", "i", "f">> >>

NamePng == <<"a", ".", "p", "n", "g">>
NameUpperPng == <<"A", ".", "P", "N", "G">>
NameTxt == <<"a", ".", "t", "x", "t">>
TypePng == <<"i", "m", "a", "g", "e", "/", "p", "n", "g">>
TypeNone == <<>>
TypeText == <<"t", "e", "x", "t", "/", "p", "l", "a", "i", "n">>

\* The files of the model: a PNG below, at and above the size cap, a PNG
\* whose name is in upper case and whose MIME type the browser left empty,
\* and text files, one of them carrying an image MIME type.
Files ==
    { File(NamePng, TypePng, 1024),
      File(NamePng, TypePng, maxFileSize),
      File(NamePng, TypePng, maxFileSize + 1),
      File(NameUpperPng, TypeNone, 1024),
      File(NameTxt, TypePng, 1024),
      File(NameTxt, TypeText, maxFileSize + 1) }

\* the file lists of at most MaxFiles files that an event can carry
FileLists == UNION {[1..k -> Files] : k \in 0..MaxFiles}

(***************************************************************************)
(* fileHandlingService: validation.                                        *)
(***************************************************************************)
validateFileType_noBareExtension(file, allowedTypes) ==
    IF IsNull(file) THEN FALSE
    ELSE IF Len(allowedTypes) = 0 THEN TRUE
    ELSE LET fileType == toLowerCase(file.type)
             fileName == toLowerCase(file.name)
         IN  \E k \in 1..Len(allowedTypes) :
                LET normalizedType == toLowerCase(allowedTypes[k])
                IN  \/ fileType = normalizedType
                    \/ /\ startsWith(normalizedType, <<".">>)
                       /\ endsWith(fileName, normalizedType)

validateFileType(file, allowedTypes) ==
    IF IsNull(file) THEN FALSE
    ELSE IF Len(allowedTypes) = 0 THEN TRUE
    ELSE LET fileType == toLowerCase(file.type)
             fileName == toLowerCase(file.name)
         IN  \E k \in 1..Len(allowedTypes) :
                LET normalizedType == toLowerCase(allowedTypes[k])
                IN  \/ fileType = normalizedType
                    \/ /\ startsWith(normalizedType, <<".">>)
                       /\ endsWith(fileName, normalizedType)
                    \/ /\ ~includes(normalizedType, <<"/">>)
                       /\ ~startsWith(normalizedType, <<".">>)
                       /\ endsWith(fileName, <<".">> \o normalizedType)

validateFileSize_strict(file, maxSize) ==
    IF IsNull(file) THEN FALSE
    ELSE IF maxSize <= 0 THEN TRUE
    ELSE file.size < maxSize

validateFileSize(file, maxSize) ==
    IF IsNull(file) THEN FALSE
    ELSE IF maxSize <= 0 THEN TRUE
    ELSE file.size <= maxSize

\* The error texts stand for the message templates of the code: the allowed
\* types and the sizes in MB that the code interpolates are left out.
Valid == [isValid |-> TRUE]
Invalid(error) == [isValid |-> FALSE, error |-> error]

validateFile(file, allowedTypes, maxSize) ==
    IF IsNull(file) THEN Invalid("No file provided")
    ELSE IF ~validateFileType(file, allowedTypes)
         THEN Invalid("File type not supported. Allowed types: ...")
    ELSE IF ~validateFileSize(file, maxSize)
         THEN Invalid("File size (...MB) exceeds maximum allowed size (...MB)")
    ELSE Valid

(***************************************************************************)
(* FileDropzone.                                                           *)
(*                                                                         *)
(* dz holds the props disabled and multiple and the component state        *)
(* isDragOver, isDragActive and error; acceptedTypes and maxFileSize are   *)
(* the application's.  An error text is a sequence of parts: the parts of  *)
(* errors.join(', ') are `${file.name}: ${validation.error}`.              *)
(***************************************************************************)
PlainError(text) == << [name |-> Null, text |-> text] >>
FileError(file, text) == [name |-> Some(file.name), text |-> text]

RECURSIVE ValidationErrors(_)
ValidationErrors(files) ==
    IF files = <<>> THEN <<>>
    ELSE LET validation == validateFile(Head(files), supportedFormats, maxFileSize)
         IN  (IF validation.isValid THEN <<>>
              ELSE <<FileError(Head(files), validation.error)>>)
             \o ValidationErrors(Tail(files))

IsValidFile(file) == validateFile(file, supportedFormats, maxFileSize).isValid

\* handleFileSelection: what it leaves in error, and the list it passes to
\* onFileSelect (Null: onFileSelect is not called)
SelectionError(files) ==
    LET errors == ValidationErrors(files)
    IN  IF Len(errors) > 0 THEN Some(errors) ELSE Null

SelectionPassed(files) ==
    LET validFiles == SelectSeq(files, IsValidFile)
    IN  IF Len(validFiles) > 0 THEN Some(validFiles) ELSE Null

Selection(files) ==
    [null |-> FALSE,
     files |-> files,
     validations |-> [i \in 1..Len(files) |->
                        validateFile(files[i], supportedFormats, maxFileSize)],
     passed |-> SelectionPassed(files)]

\* onFileSelect(validFiles): the argument is the array validFiles
ArrayOf(files) == [type |-> "File[]", items |-> files]

\* an event and what its handler did besides setting state: the files the
\* event carried, whether the handler opened the file picker
\* (fileInputRef.current?.click()), and the argument it called onFileSelect
\* with (Null: no call)
Event(handler, files, opened, called) ==
    [null |-> FALSE, handler |-> handler, files |-> files, opened |-> opened,
     called |-> called]

onFileSelectCall(files) ==
    LET validFiles == SelectSeq(files, IsValidFile)
    IN  IF Len(validFiles) > 0 THEN Some(ArrayOf(validFiles)) ELSE Null

\* the variant keeps the previous error when the new selection has none
handleFileSelection_keepError(files) ==
    /\ dz' = [dz EXCEPT !.error = IF IsNull(SelectionError(files)) THEN dz.error
                                  ELSE SelectionError(files)]
    /\ sel' = Selection(files)

handleFileSelection(files) ==
    /\ dz' = [dz EXCEPT !.error = SelectionError(files)]
    /\ sel' = Selection(files)

handleDragEnter_whenDisabled ==
    /\ dz.mounted
    /\ dz' = [dz EXCEPT !.isDragOver = TRUE, !.isDragActive = TRUE]
    /\ sel' = Null
    /\ ev' = Event("handleDragEnter", <<>>, FALSE, Null)
    /\ UNCHANGED <<pageVars, proc, fn, dl, li>>

handleDragEnter ==
    /\ dz.mounted
    /\ dz' = IF dz.disabled THEN dz
             ELSE [dz EXCEPT !.isDragOver = TRUE, !.isDragActive = TRUE]
    /\ sel' = Null
    /\ ev' = Event("handleDragEnter", <<>>, FALSE, Null)
    /\ UNCHANGED <<pageVars, proc, fn, dl, li>>

\* outside: the pointer has left the dropzone's bounding rectangle
handleDragLeave ==
    /\ dz.mounted
    /\ \E outside \in BOOLEAN :
         dz' = IF dz.disabled \/ ~outside THEN dz
               ELSE [dz EXCEPT !.isDragOver = FALSE, !.isDragActive = FALSE]
    /\ sel' = Null
    /\ ev' = Event("handleDragLeave", <<>>, FALSE, Null)
    /\ UNCHANGED <<pageVars, proc, fn, dl, li>>

handleDragOver ==
    /\ dz.mounted
    /\ dz' = IF dz.disabled THEN dz ELSE [dz EXCEPT !.isDragOver = TRUE]
    /\ sel' = Null
    /\ ev' = Event("handleDragOver", <<>>, FALSE, Null)
    /\ UNCHANGED <<pageVars, proc, fn, dl, li>>

handleDrop_anyNumber ==
    /\ dz.mounted
    /\ \E files \in FileLists :
         LET dropped == [dz EXCEPT !.isDragOver = FALSE, !.isDragActive = FALSE]
         IN
         /\ IF dz.disabled
               THEN dz' = dropped /\ sel' = Null
             ELSE IF Len(files) = 0
               THEN /\ dz' = [dropped EXCEPT !.error = Some(PlainError("No files were dropped"))]
                    /\ sel' = Null
             ELSE /\ dz' = [dropped EXCEPT !.error = SelectionError(files)]
                  /\ sel' = Selection(files)
         /\ ev' = Event("handleDrop", files, FALSE,
                        IF IsNull(sel') THEN Null ELSE onFileSelectCall(files))
    /\ UNCHANGED <<pageVars, proc, fn, dl, li>>

handleDrop ==
    /\ dz.mounted
    /\ \E files \in FileLists :
         LET dropped == [dz EXCEPT !.isDragOver = FALSE, !.isDragActive = FALSE]
         IN
         /\ IF dz.disabled
               THEN dz' = dropped /\ sel' = Null
             ELSE IF Len(files) = 0
               THEN /\ dz' = [dropped EXCEPT !.error = Some(PlainError("No files were dropped"))]
                    /\ sel' = Null
             ELSE IF ~dz.multiple /\ Len(files) > 1
               THEN /\ dz' = [dropped EXCEPT
                                !.error = Some(PlainError("Please drop only one file at a time"))]
                    /\ sel' = Null
             ELSE /\ dz' = [dropped EXCEPT !.error = SelectionError(files)]
                  /\ sel' = Selection(files)
         /\ ev' = Event("handleDrop", files, FALSE,
                        IF IsNull(sel') THEN Null ELSE onFileSelectCall(files))
    /\ UNCHANGED <<pageVars, proc, fn, dl, li>>

\* a click on the card or the Choose File button, or Enter/Space on the card
handleClick ==
    /\ dz.mounted
    /\ dz' = IF dz.disabled THEN dz ELSE [dz EXCEPT !.error = Null]
    /\ sel' = Null
    /\ ev' = Event("handleClick", <<>>, ~dz.disabled, Null)
    /\ UNCHANGED <<pageVars, proc, fn, dl, li>>

\* The change event of the hidden file input.  A disabled input fires no
\* event, and an input without the multiple attribute holds one file at most.
handleFileInputChange ==
    /\ dz.mounted
    /\ ~dz.disabled
    /\ \E files \in FileLists :
         /\ dz.multiple \/ Len(files) <= 1
         /\ IF Len(files) = 0
              THEN UNCHANGED dz /\ sel' = Null
              ELSE handleFileSelection(files)
         /\ ev' = Event("handleFileInputChange", files, FALSE,
                        IF IsNull(sel') THEN Null ELSE onFileSelectCall(files))
    /\ UNCHANGED <<pageVars, proc, fn, dl, li>>

InitDropzone ==
    /\ PageIdle /\ ProcIdle /\ NamesIdle /\ DlIdle /\ LiIdle
    /\ \E disabled \in BOOLEAN, multiple \in BOOLEAN :
         dz = [mounted |-> TRUE, disabled |-> disabled, multiple |-> multiple,
               isDragOver |-> FALSE, isDragActive |-> FALSE, error |-> Null]
    /\ sel = Null
    /\ ev = Null

NextDropzone ==
    \/ handleDragEnter
    \/ handleDragLeave
    \/ handleDragOver
    \/ handleDrop
    \/ handleClick
    \/ handleFileInputChange

SpecDropzone == InitDropzone /\ [][NextDropzone]_vars

(***************************************************************************)
(* C7: with the 10MB cap and an allowed file type, validateFile accepts a  *)
(* file exactly when its size is at most 10*1024*1024 bytes (exactly 10MB  *)
(* is accepted) and otherwise returns the 'exceeds maximum allowed size'   *)
(* error; the dropzone then holds that error for the file and does not     *)
(* pass the file to onFileSelect.                                          *)
(***************************************************************************)
TenMB == 10485760

C7_SizeCapDecidesAcceptance ==
    ~IsNull(sel) =>
        \A i \in 1..Len(sel.files) :
            LET f == sel.files[i]
                v == sel.validations[i]
            IN  validateFileType(f, supportedFormats) =>
                  /\ v.isValid <=> f.size <= TenMB
                  /\ v.isValid => ~IsNull(sel.passed) /\ InSeq(f, sel.passed.val)
                  /\ ~v.isValid =>
                       /\ v.error = "File size (...MB) exceeds maximum allowed size (...MB)"
                       /\ IsNull(sel.passed) \/ ~InSeq(f, sel.passed.val)
                       /\ ~IsNull(dz.error)
                       /\ InSeq(FileError(f, v.error), dz.error.val)

\* a selection of a file of exactly 10MB, accepted, and one a byte larger, rejected
C7_Witness ==
    /\ ~IsNull(sel)
    /\ Len(sel.files) = 2
    /\ sel.files[1] = File(NamePng, TypePng, TenMB)
    /\ sel.files[2] = File(NamePng, TypePng, TenMB + 1)
    /\ sel.passed = Some(<< File(NamePng, TypePng, TenMB) >>)
    /\ ~IsNull(dz.error)

(***************************************************************************)
(* AppError and ErrorCategory.                                             *)
(***************************************************************************)
FILE_VALIDATION == "file_validation"
PROCESSING == "processing"
BROWSER_COMPATIBILITY == "browser_compatibility"
ErrorCategory == {FILE_VALIDATION, PROCESSING, BROWSER_COMPATIBILITY}

\* new AppError(message, category, userMessage, recoverable); message stands
\* for the fixed head of the message text
AppError(message, category, userMessage, recoverable) ==
    [isAppError |-> TRUE, message |-> message, category |-> category,
     userMessage |-> userMessage, recoverable |-> recoverable]

\* any other thrown value
RawError == [isAppError |-> FALSE, message |-> "Error"]

Resolved(svg) == [null |-> FALSE, kind |-> "resolved", svg |-> svg]
Rejected(error) == [null |-> FALSE, kind |-> "rejected", error |-> error]

(***************************************************************************)
(* SVG markup.  A string of markup is a sequence of chunks.  Every chunk   *)
(* is the opening of a tag or a run of text without "<", so an occurrence  *)
(* of one of the substrings the code searches for ('<svg', '</svg>',       *)
(* '<path', ...) is a chunk of the sequence.                               *)
(***************************************************************************)
VectorTags == {"<path", "<polygon", "<circle", "<rect", "<ellipse", "<line"}
Chunks == {"<svg", "</svg>", "<g", "text"} \cup VectorTags

SvgStrings == UNION {[1..k -> Chunks] : k \in 0..MaxSvgLen}

svgIncludes(svgString, pattern) ==
    \E i \in 1..Len(svgString) : svgString[i] = pattern

\* what ImageTracer.imageDataToSVG can hand back: a string, or (the library
\* being untyped at run time) something that is not a string
TracerResults ==
    {[type |-> "undefined"], [type |-> "object"]}
        \cup {[type |-> "string", val |-> s] : s \in SvgStrings}

\* !svgString || typeof svgString !== 'string'
IsInvalidResult(svgString) ==
    \/ svgString.type = "undefined"
    \/ svgString.type = "string" /\ svgString.val = <<>>
    \/ svgString.type # "string"

hasVectorContent_noLine(svgString) ==
    \/ svgIncludes(svgString, "<path")
    \/ svgIncludes(svgString, "<polygon")
    \/ svgIncludes(svgString, "<circle")
    \/ svgIncludes(svgString, "<rect")
    \/ svgIncludes(svgString, "<ellipse")

hasVectorContent(svgString) ==
    \/ svgIncludes(svgString, "<path")
    \/ svgIncludes(svgString, "<polygon")
    \/ svgIncludes(svgString, "<circle")
    \/ svgIncludes(svgString, "<rect")
    \/ svgIncludes(svgString, "<ellipse")
    \/ svgIncludes(svgString, "<line")

\* the checks of traceImageToSvgWithVectorizer on the tracer's result:
\* Null when they pass, otherwise the AppError the promise is rejected with
TracerResultError(svgString) ==
    IF IsInvalidResult(svgString)
      THEN Some(AppError("ImageTracer returned invalid result", PROCESSING,
                         "Failed to generate SVG from image", TRUE))
    ELSE IF ~svgIncludes(svgString.val, "<svg") \/ ~svgIncludes(svgString.val, "</svg>")
      THEN Some(AppError("Generated SVG is malformed", PROCESSING,
                         "The generated SVG appears to be invalid", TRUE))
    ELSE IF ~hasVectorContent(svgString.val)
      THEN Some(AppError("ImageTracer generated an empty SVG without vector paths",
                         PROCESSING,
                         "The image could not be converted to vector format. The tracing process failed to generate any paths.",
                         TRUE))
    ELSE Null

\* the tags cleanSvg's regular expressions remove, among the chunks
UnwantedTags == {"<g"}

IsWanted(chunk) == chunk \notin UnwantedTags

\* what processImage returns for the string the tracing step resolved with
Delivered_cleaned(svgString) == SelectSeq(svgString, IsWanted)

Delivered(svgString) == svgString

(***************************************************************************)
(* ImageProcessingServiceImpl.                                             *)
(***************************************************************************)
supportedTypes ==
    << <<"i", "m", "a", "g", "e", "/", "p", "n", "g">>,
       <<"i", "m", "a", "g", "e", "/", "j", "p", "e", "g">>,
       <<"i", "m", "a", "g", "e", "/", "j", "p", "g">>,
       <<"i", "m", "a", "g", "e", "/", "b", "m", "p">>,
       <<"i", "m", "a", "g", "e", "/", "g", "i", "f">> >>

\* ImageProcessingServiceImpl.validateFile
serviceValidateFile(file) ==
    IF IsNull(file) THEN Invalid("No file provided")
    ELSE IF ~InSeq(toLowerCase(file.type), supportedTypes)
         THEN Invalid("Unsupported file type: ...")
    ELSE IF file.size > maxFileSize
         THEN Invalid("File size (...MB) exceeds maximum allowed size (...MB)")
    ELSE Valid

\* the catch clause of processImage
processImageCatch_rewrap(error) ==
    AppError("Image processing failed", PROCESSING,
             "Failed to convert image to SVG. Please try with a different image.", TRUE)

processImageCatch(error) ==
    IF error.isAppError THEN error
    ELSE AppError("Image processing failed", PROCESSING,
                  "Failed to convert image to SVG. Please try with a different image.", TRUE)

\* a step inside the try block rejected with error: what processImage does
InnerRejection(error, cause) ==
    [proc EXCEPT !.pc = "done", !.inner = Some(error), !.cause = cause,
                 !.outcome = Rejected(processImageCatch(error))]

\* processImage(file) up to its first suspension: the validation and the
\* synchronous part of loadImageToCanvas
ProcessImageCall ==
    /\ proc.pc = "called"
    /\ LET validation == serviceValidateFile(proc.file)
       IN  IF ~validation.isValid
             THEN proc' = [proc EXCEPT
                             !.pc = "done", !.cause = "validation",
                             !.outcome = Rejected(AppError("File validation failed",
                                            FILE_VALIDATION, validation.error, TRUE))]
             ELSE \E createObjectURLThrows \in BOOLEAN :
                    proc' = IF createObjectURLThrows
                            THEN InnerRejection(
                                   AppError("Failed to create object URL",
                                            BROWSER_COMPATIBILITY,
                                            "Unable to process the selected file", FALSE),
                                   "createObjectURL")
                            ELSE [proc EXCEPT !.pc = "loading", !.url = "created"]
    /\ UNCHANGED <<pageVars, dz, sel, ev, fn, dl, li>>

\* img.onload
ImageOnLoad ==
    /\ proc.pc = "loading"
    /\ \E ctxAvailable \in BOOLEAN, drawImageThrows \in BOOLEAN :
         proc' =
           IF ~ctxAvailable
             THEN [InnerRejection(
                     AppError("Failed to get 2D context from canvas", BROWSER_COMPATIBILITY,
                              "Your browser does not support canvas rendering", FALSE),
                     "noContext")
                   EXCEPT !.canvas = "created"]
           ELSE IF drawImageThrows
             THEN [InnerRejection(
                     AppError("Failed to render image to canvas", PROCESSING,
                              "Failed to prepare image for processing", TRUE),
                     "drawImage")
                   EXCEPT !.canvas = "created"]
           ELSE [proc EXCEPT !.pc = "canvasReady", !.canvas = "drawn", !.url = "revoked"]
    /\ UNCHANGED <<pageVars, dz, sel, ev, fn, dl, li>>

\* img.onerror
ImageOnError ==
    /\ proc.pc = "loading"
    /\ proc' = [InnerRejection(
                  AppError("Failed to load image", FILE_VALIDATION,
                           "Unable to load the selected image. Please check if the file is corrupted.",
                           TRUE),
                  "imageError")
                EXCEPT !.url = "revoked"]
    /\ UNCHANGED <<pageVars, dz, sel, ev, fn, dl, li>>

\* traceImageToSvgWithVectorizer: getImageData or the tracer throws.  (The
\* canvas hands back the 2D context loadImageToCanvas obtained, so the
\* 'Cannot get canvas context' branch is not taken.)
TraceImageThrows ==
    /\ proc.pc = "canvasReady"
    /\ \E thrower \in {"getImageData", "imageDataToSVG"} :
         proc' = InnerRejection(
                   AppError("ImageTracer processing failed", PROCESSING,
                            "Failed to trace image to SVG. Try adjusting the image or using different settings.",
                            TRUE),
                   thrower)
    /\ UNCHANGED <<pageVars, dz, sel, ev, fn, dl, li>>

\* traceImageToSvgWithVectorizer: the tracer returns svgString
TraceImage ==
    /\ proc.pc = "canvasReady"
    /\ \E svgString \in TracerResults :
         LET error == TracerResultError(svgString)
         IN  proc' = IF IsNull(error)
                     THEN [proc EXCEPT !.pc = "traced", !.traced = Some(svgString)]
                     ELSE [InnerRejection(error.val, "invalidOutput")
                           EXCEPT !.traced = Some(svgString)]
    /\ UNCHANGED <<pageVars, dz, sel, ev, fn, dl, li>>

\* processImage after the tracing step resolved: cleanupCanvas, return
ProcessImageReturn ==
    /\ proc.pc = "traced"
    /\ proc' = [proc EXCEPT !.pc = "done", !.canvas = "cleared",
                            !.outcome = Resolved(Delivered(proc.traced.val.val))]
    /\ UNCHANGED <<pageVars, dz, sel, ev, fn, dl, li>>

ProcFiles ==
    { File(NamePng, TypePng, maxFileSize),
      File(NamePng, TypePng, maxFileSize + 1),
      File(NameUpperPng, TypeNone, 1024) }

InitProcess ==
    /\ PageIdle /\ DzIdle /\ NamesIdle /\ DlIdle /\ LiIdle
    /\ \E file \in ProcFiles :
         proc = [pc |-> "called", file |-> file, url |-> "none", canvas |-> "none",
                 traced |-> Null, inner |-> Null, outcome |-> Null, cause |-> "none"]

NextProcess ==
    \/ ProcessImageCall
    \/ ImageOnLoad
    \/ ImageOnError
    \/ TraceImageThrows
    \/ TraceImage
    \/ ProcessImageReturn

SpecProcess == InitProcess /\ [][NextProcess]_vars

ProcRejected == proc.pc = "done" /\ proc.outcome.kind = "rejected"
ProcResolved == proc.pc = "done" /\ proc.outcome.kind = "resolved"

(***************************************************************************)
(* C6: every rejection of processImage is an AppError of one of the three  *)
(* categories: failed validation and a failed image load give file         *)
(* validation, a missing 2D context gives browser compatibility, a tracer  *)
(* exception and an invalid tracer result give processing; recoverable is  *)
(* false exactly for browser compatibility; and the AppError an inner step *)
(* rejected with is the one processImage rejects with.                     *)
(***************************************************************************)
C6_RejectionsAreCategorisedAppErrors ==
    ProcRejected =>
        LET e == proc.outcome.error
        IN  /\ e.isAppError
            /\ e.category \in ErrorCategory
            /\ proc.cause \in {"validation", "imageError"} => e.category = FILE_VALIDATION
            /\ proc.cause = "noContext" => e.category = BROWSER_COMPATIBILITY
            /\ proc.cause \in {"imageDataToSVG", "invalidOutput"} => e.category = PROCESSING
            /\ e.recoverable = FALSE <=> e.category = BROWSER_COMPATIBILITY
            /\ ~IsNull(proc.inner) => e = proc.inner.val

\* the missing 2D context has been reported as a non-recoverable
\* browser-compatibility error
C6_Witness ==
    /\ ProcRejected
    /\ proc.cause = "noContext"
    /\ proc.outcome.error.category = BROWSER_COMPATIBILITY
    /\ ~proc.outcome.error.recoverable

(***************************************************************************)
(* C9: once the tracer has returned, processImage resolves exactly when    *)
(* the result is a non-empty string that contains '<svg', '</svg>' and one *)
(* of the vector tags, and then with that very string; for any other       *)
(* result it rejects with a processing AppError.                           *)
(***************************************************************************)
IsTracedSvg(r) ==
    /\ r.type = "string"
    /\ Len(r.val) > 0
    /\ \E i \in 1..Len(r.val) : r.val[i] = "<svg"
    /\ \E i \in 1..Len(r.val) : r.val[i] = "</svg>"
    /\ \E i \in 1..Len(r.val) :
         r.val[i] \in {"<path", "<polygon", "<circle", "<rect", "<ellipse", "<line"}

C9_ResolvesOnlyWithValidatedTracerOutput ==
    /\ ProcResolved => ~IsNull(proc.traced)
    /\ proc.pc = "done" /\ ~IsNull(proc.traced) =>
         IF IsTracedSvg(proc.traced.val)
           THEN proc.outcome = Resolved(proc.traced.val.val)
           ELSE /\ proc.outcome.kind = "rejected"
                /\ proc.outcome.error.isAppError
                /\ proc.outcome.error.category = PROCESSING

\* a tracer result whose only vector tag is '<line' has been delivered
C9_Witness ==
    /\ ProcResolved
    /\ proc.outcome.svg = <<"<svg", "<line", "</svg>">>

(***************************************************************************)
(* C10 (as amended): no cleanup step runs between the tracer and the       *)
(* caller.  processImage delivers the tracer's output as it is, so a group *)
(* tag of the tracer's output is still in the delivered SVG.               *)
(***************************************************************************)
UnwantedIn(svg) == {i \in 1..Len(svg) : svg[i] \in UnwantedTags}

ProcessingState ==
    [IDLE |-> "idle", UPLOADING |-> "uploading", PROCESSING |-> "processing",
     COMPLETED |-> "completed", ERROR |-> "error"]

Msg(text) == [text |-> text, args |-> <<>>]
MsgOf(text, args) == [text |-> text, args |-> args]

\* the initial value of useState<AppState>, also what handleErrorRecovery sets
InitialAppState(p) ==
    IF p = "single"
    THEN [uploadedFile |-> Null, isProcessing |-> FALSE, svgResult |-> Null,
          error |-> Null, processingState |-> ProcessingState.IDLE]
    ELSE [uploadedFiles |-> <<>>, isProcessing |-> FALSE, conversionResults |-> <<>>,
          error |-> Null, processingState |-> ProcessingState.IDLE,
          currentlyProcessing |-> Null]

\* a string | null is truthy when it is neither null nor '' (message texts
\* are strings of the model, markup is a sequence of chunks)
TruthyText(x) == ~IsNull(x) /\ x.val # ""
TruthyMarkup(x) == ~IsNull(x) /\ x.val # <<>>

\* single-file page: the functional updates of handleFileSelect
uploadingUpdate_notProcessing(prev, file) ==
    [prev EXCEPT !.uploadedFile = file, !.svgResult = Null, !.error = Null,
                 !.processingState = ProcessingState.UPLOADING]

uploadingUpdate_keepError(prev, file) ==
    [prev EXCEPT !.uploadedFile = file, !.isProcessing = TRUE, !.svgResult = Null,
                 !.processingState = ProcessingState.UPLOADING]

uploadingUpdate(prev, file) ==
    [prev EXCEPT !.uploadedFile = file, !.isProcessing = TRUE, !.svgResult = Null,
                 !.error = Null, !.processingState = ProcessingState.UPLOADING]

processingUpdate(prev) ==
    [prev EXCEPT !.processingState = ProcessingState.PROCESSING]

completedUpdate_stillProcessing(prev, svgResult) ==
    [prev EXCEPT !.svgResult = Some(svgResult),
                 !.processingState = ProcessingState.COMPLETED]

completedUpdate(prev, svgResult) ==
    [prev EXCEPT !.isProcessing = FALSE, !.svgResult = Some(svgResult),
                 !.processingState = ProcessingState.COMPLETED]

errorUpdate(prev, errorMessage) ==
    [prev EXCEPT !.isProcessing = FALSE, !.error = Some(errorMessage),
                 !.processingState = ProcessingState.ERROR]

\* the catch clauses: error instanceof AppError ? error.userMessage : ...
errorMessageOf_generic(error) ==
    "An unexpected error occurred during image processing"

errorMessageOf(error) ==
    IF error.isAppError THEN error.userMessage
    ELSE "An unexpected error occurred during image processing"

\* batch page: the functional updates of handleFileSelect
batchStartUpdate(prev, files) ==
    [prev EXCEPT !.uploadedFiles = files, !.isProcessing = TRUE,
                 !.conversionResults = <<>>, !.error = Null,
                 !.processingState = ProcessingState.PROCESSING,
                 !.currentlyProcessing = Some(files[1].name)]

currentUpdate(prev, file) ==
    [prev EXCEPT !.currentlyProcessing = Some(file.name)]

\* the variant keeps only the latest result
resultUpdate_replace(prev, result) ==
    [prev EXCEPT !.conversionResults = <<result>>]

resultUpdate_finishing(prev, result) ==
    [prev EXCEPT !.conversionResults = Append(prev.conversionResults, result),
                 !.isProcessing = FALSE]

resultUpdate(prev, result) ==
    [prev EXCEPT !.conversionResults = Append(prev.conversionResults, result)]

\* the variant leaves isProcessing set
finishUpdate_stillProcessing(prev) ==
    [prev EXCEPT !.processingState = ProcessingState.COMPLETED,
                 !.currentlyProcessing = Null]

finishUpdate(prev) ==
    [prev EXCEPT !.isProcessing = FALSE,
                 !.processingState = ProcessingState.COMPLETED,
                 !.currentlyProcessing = Null]

\* ConversionResult; the id (time stamp and random suffix in the code) is
\* the number of the run and the position of the file in it
SuccessResult(id, file, svgContent) ==
    [id |-> id, file |-> file, svgContent |-> svgContent, error |-> Null]

ErrorResult(id, file, errorMessage) ==
    [id |-> id, file |-> file, svgContent |-> <<>>, error |-> Some(errorMessage)]

ConvertingMessage(files, i) ==
    MsgOf("Converting ${file.name} (${i + 1}/${files.length})...",
          <<files[i].name, i, Len(files)>>)

(***************************************************************************)
(* What the page renders.                                                  *)
(***************************************************************************)
\* renderMainContent: which of its branches is rendered
View ==
    IF appState.isProcessing THEN "loading"
    ELSE IF TruthyText(appState.error) THEN "error"
    ELSE IF page = "single"
         THEN IF TruthyMarkup(appState.svgResult) /\ ~IsNull(appState.uploadedFile)
              THEN "completed" ELSE "dropzone"
         ELSE IF Len(appState.conversionResults) > 0
              THEN "results" ELSE "dropzone"

isDropzoneDisabled ==
    appState.isProcessing \/ appState.processingState = ProcessingState.PROCESSING

getLoadingMessage ==
    IF page = "single"
    THEN CASE appState.processingState = ProcessingState.UPLOADING ->
                Msg("Preparing image for conversion...")
           [] appState.processingState = ProcessingState.PROCESSING ->
                Msg("Converting image to SVG...")
           [] OTHER -> processingMessage
    ELSE IF ~IsNull(appState.currentlyProcessing) /\ appState.currentlyProcessing.val # <<>>
         THEN MsgOf("Converting ${appState.currentlyProcessing}...",
                    <<appState.currentlyProcessing.val>>)
    ELSE CASE appState.processingState = ProcessingState.UPLOADING ->
                Msg("Preparing images for conversion...")
           [] appState.processingState = ProcessingState.PROCESSING ->
                Msg("Converting images to SVG...")
           [] OTHER -> processingMessage

\* the error card offers Retry
RetryOffered ==
    /\ View = "error"
    /\ IF page = "single" THEN ~IsNull(appState.uploadedFile)
       ELSE Len(appState.uploadedFiles) > 0

HasNoError(result) == IsNull(result.error) \/ result.error.val = ""

\* batch page, results branch: the banner, the results handed to SVGPreview
\* (the only result, whatever it is) and to SVGGrid (those without error)
Banner ==
    IF Len(appState.conversionResults) = 1
    THEN Msg("Conversion completed successfully")
    ELSE MsgOf("${appState.conversionResults.length} conversions completed",
               <<Len(appState.conversionResults)>>)

PreviewResults ==
    IF Len(appState.conversionResults) = 1 THEN appState.conversionResults ELSE <<>>

\* the variant hands the grid a single result as well
GridResults_alsoSingle ==
    SelectSeq(appState.conversionResults, HasNoError)

GridResults ==
    IF Len(appState.conversionResults) = 1 THEN <<>>
    ELSE SelectSeq(appState.conversionResults, HasNoError)

\* SVGGrid renders result.error of the results it is given
GridErrors ==
    {GridResults[k].error.val :
        k \in {j \in 1..Len(GridResults) : ~HasNoError(GridResults[j])}}

(***************************************************************************)
(* The page's handlers.                                                    *)
(***************************************************************************)
\* a handleFileSelect invocation suspended at await processImage(files[i])
Run(files) == [done |-> FALSE, files |-> files, i |-> 1]
FinishedRun == [done |-> TRUE, files |-> <<>>, i |-> 0]

InFlight == {r \in 1..Len(runs) : ~runs[r].done}

\* handleFileSelect up to its first await
handleFileSelect(files) ==
    /\ Len(files) > 0
    /\ IF page = "single"
       THEN /\ appState' = processingUpdate(uploadingUpdate(appState, files[1]))
            /\ currentSession' = Some([originalFile |-> files[1],
                                       state |-> ProcessingState.PROCESSING])
            /\ processingMessage' = Msg("Converting image to SVG...")
       ELSE /\ appState' = currentUpdate(batchStartUpdate(appState, files), files[1])
            /\ currentSession' = currentSession
            /\ processingMessage' = ConvertingMessage(files, 1)
    /\ runs' = Append(runs, Run(files))
    /\ last' = Null

\* the files the pages of the model are given: a PNG, a PNG whose MIME type
\* is empty, and a PNG above the size cap
PageFiles ==
    { File(NamePng, TypePng, 1024),
      File(NameUpperPng, TypeNone, 1024),
      File(NamePng, TypePng, maxFileSize + 1) }

PageFileLists == UNION {[1..k -> PageFiles] : k \in 1..MaxFiles}

\* The dropzone calls onFileSelect.  The batch page's dropzone passes on the
\* files of the selection that it found valid; the single-file page's
\* handler takes the file it is called with.
SelectFiles ==
    /\ View = "dropzone"
    /\ ~isDropzoneDisabled
    /\ Len(runs) < MaxRuns
    /\ IF page = "single"
       THEN \E file \in PageFiles : handleFileSelect(<<file>>)
       ELSE \E files \in PageFileLists :
              /\ ~IsNull(SelectionPassed(files))
              /\ handleFileSelect(SelectionPassed(files).val)
    /\ did' = "onFileSelect"
    /\ UNCHANGED <<page, proc, dz, sel, ev, fn, dl, li>>

\* markup that passes the checks of the tracing step
PageSvgs == { <<"<svg", "<path", "</svg>">>, <<"<svg", "<g", "<rect", "</svg>">> }

\* rejections of processImage inside its try block, one of each category
ServiceErrors ==
    { AppError("Failed to load image", FILE_VALIDATION,
               "Unable to load the selected image. Please check if the file is corrupted.",
               TRUE),
      AppError("Failed to get 2D context from canvas", BROWSER_COMPATIBILITY,
               "Your browser does not support canvas rendering", FALSE),
      AppError("ImageTracer returned invalid result", PROCESSING,
               "Failed to generate SVG from image", TRUE) }

\* How processImage(file) can settle, as the page sees it.  The page's catch
\* clause also handles a rejection that is not an AppError (the page's tests
\* reject with a plain Error).
PageOutcomes(file) ==
    LET validation == serviceValidateFile(file)
    IN  IF ~validation.isValid
        THEN {Rejected(AppError("File validation failed", FILE_VALIDATION,
                                validation.error, TRUE))}
        ELSE {Resolved(svg) : svg \in PageSvgs}
               \cup {Rejected(e) : e \in ServiceErrors}
               \cup {Rejected(RawError)}

\* handleFileSelect resumed by the settling of processImage(files[i]), up to
\* its next await or its end
Settle ==
    \E r \in InFlight :
      LET files == runs[r].files
          i == runs[r].i
          file == files[i]
      IN  \E outcome \in PageOutcomes(file) :
            /\ IF page = "single"
               THEN /\ appState' =
                         IF outcome.kind = "resolved"
                         THEN completedUpdate(appState, outcome.svg)
                         ELSE errorUpdate(appState, errorMessageOf(outcome.error))
                    /\ currentSession' =
                         Some([originalFile |-> file,
                               state |-> IF outcome.kind = "resolved"
                                         THEN ProcessingState.COMPLETED
                                         ELSE ProcessingState.ERROR])
                    /\ processingMessage' =
                         IF outcome.kind = "resolved"
                         THEN Msg("Conversion completed!") ELSE processingMessage
                    /\ runs' = [runs EXCEPT ![r] = FinishedRun]
               ELSE LET result ==
                          IF outcome.kind = "resolved"
                          THEN SuccessResult(<<r, i>>, file, outcome.svg)
                          ELSE ErrorResult(<<r, i>>, file, errorMessageOf(outcome.error))
                        withResult == resultUpdate(appState, result)
                    IN  /\ currentSession' = currentSession
                        /\ IF i < Len(files)
                           THEN /\ appState' = currentUpdate(withResult, files[i + 1])
                                /\ processingMessage' = ConvertingMessage(files, i + 1)
                                /\ runs' = [runs EXCEPT ![r].i = i + 1]
                           ELSE /\ appState' = finishUpdate(withResult)
                                /\ processingMessage' = Msg("All conversions completed!")
                                /\ runs' = [runs EXCEPT ![r] = FinishedRun]
            /\ last' = Some([file |-> file, outcome |-> outcome])
    /\ did' = "settled"
    /\ UNCHANGED <<page, proc, dz, sel, ev, fn, dl, li>>

\* the Retry button of the error card
handleRetry ==
    /\ RetryOffered
    /\ Len(runs) < MaxRuns
    /\ IF page = "single"
       THEN handleFileSelect(<<appState.uploadedFile>>)
       ELSE handleFileSelect(appState.uploadedFiles)
    /\ did' = "handleRetry"
    /\ UNCHANGED <<page, proc, dz, sel, ev, fn, dl, li>>

handleErrorRecovery ==
    /\ appState' = InitialAppState(page)
    /\ currentSession' = Null
    /\ processingMessage' = Msg(IF page = "single" THEN "Processing image..."
                                ELSE "Processing images...")

\* 'Try Another Image' / 'Try Again' of the error card, 'Convert Another
\* Image' / 'Convert More Images' of the results
handleNewConversion ==
    /\ View \in {"error", "completed", "results"}
    /\ handleErrorRecovery
    /\ last' = Null
    /\ did' = "handleNewConversion"
    /\ UNCHANGED <<page, runs, proc, dz, sel, ev, fn, dl, li>>

\* the remove button of a card of the SVGGrid
onRemove ==
    /\ page = "batch"
    /\ View = "results"
    /\ \E k \in 1..Len(GridResults) :
         LET id == GridResults[k].id
             Keep(r) == r.id # id
         IN  appState' = [appState EXCEPT
                            !.conversionResults = SelectSeq(appState.conversionResults, Keep)]
    /\ last' = Null
    /\ did' = "onRemove"
    /\ UNCHANGED <<page, currentSession, processingMessage, runs, proc, dz, sel, ev, fn, dl, li>>

Init ==
    /\ page \in {"single", "batch"}
    /\ appState = InitialAppState(page)
    /\ currentSession = Null
    /\ processingMessage = Msg("Processing image...")
    /\ runs = <<>>
    /\ last = Null
    /\ did = "render"
    /\ ProcIdle /\ DzIdle /\ NamesIdle /\ DlIdle /\ LiIdle

Next ==
    \/ SelectFiles
    \/ Settle
    \/ handleRetry
    \/ handleNewConversion
    \/ onRemove

Spec == Init /\ [][Next]_vars

\* every processImage call settles: a suspended handleFileSelect is resumed
SpecLive == Spec /\ WF_vars(Settle)

(***************************************************************************)
(* C1: at most one conversion is in flight.  Every suspended               *)
(* handleFileSelect run awaits one processImage call (in the batch page    *)
(* the call for file i + 1 is made by the step that handles the settling   *)
(* of the call for file i), at most one run is suspended at any time, and  *)
(* no step starts a run while isProcessing is true.                        *)
(***************************************************************************)
C1_OneConversionInFlight ==
    /\ [](Cardinality(InFlight) <= 1)
    /\ [][Len(runs') > Len(runs) => ~appState.isProcessing]_vars

\* the second run of the batch page awaits its second file
C1_Witness ==
    /\ page = "batch"
    /\ Len(runs) = 2
    /\ InFlight = {2}
    /\ runs[2].i = 2
    /\ appState.isProcessing

(***************************************************************************)
(* C2: in the single-file page the processing state is one of the five     *)
(* and the other fields agree with it: isProcessing exactly in uploading   *)
(* and processing, error non-null exactly in error, svgResult non-null     *)
(* exactly in completed, and no file, result or error in idle.             *)
(***************************************************************************)
C2_StateFieldsAgree ==
    page = "single" =>
        LET st == appState.processingState
        IN  /\ st \in {ProcessingState.IDLE, ProcessingState.UPLOADING,
                       ProcessingState.PROCESSING, ProcessingState.COMPLETED,
                       ProcessingState.ERROR}
            /\ appState.isProcessing <=>
                 st \in {ProcessingState.UPLOADING, ProcessingState.PROCESSING}
            /\ ~IsNull(appState.error) <=> st = ProcessingState.ERROR
            /\ ~IsNull(appState.svgResult) <=> st = ProcessingState.COMPLETED
            /\ st = ProcessingState.IDLE =>
                 /\ IsNull(appState.uploadedFile)
                 /\ IsNull(appState.svgResult)
                 /\ IsNull(appState.error)

\* a retry from the error state is being processed
C2_Witness ==
    /\ page = "single"
    /\ Len(runs) = 2
    /\ InFlight = {2}
    /\ appState.processingState = ProcessingState.PROCESSING
    /\ IsNull(appState.error)

(***************************************************************************)
(* C3: in the single-file page, while processImage is pending the loading  *)
(* indicator is rendered (not the dropzone) with 'Converting image to      *)
(* SVG...'; when it has resolved the state is completed and the preview    *)
(* and the download button are rendered with the returned SVG and the      *)
(* name of the selected file, the loading indicator is not.                *)
(***************************************************************************)
\* the props of SVGPreview and of DownloadButton in the completed branch
PreviewProps ==
    [svgContent |-> appState.svgResult.val,
     originalFileName |-> appState.uploadedFile.name]

DownloadProps ==
    [svgContent |-> appState.svgResult.val, fileName |-> appState.uploadedFile.name]

C3_LoadingThenPreview ==
    page = "single" =>
        /\ InFlight # {} =>
             /\ View = "loading"
             /\ getLoadingMessage = Msg("Converting image to SVG...")
        /\ ~IsNull(last) /\ last.val.outcome.kind = "resolved" =>
             /\ appState.processingState = ProcessingState.COMPLETED
             /\ View = "completed"
             /\ PreviewProps = [svgContent |-> last.val.outcome.svg,
                                originalFileName |-> last.val.file.name]
             /\ DownloadProps = [svgContent |-> last.val.outcome.svg,
                                 fileName |-> last.val.file.name]

C3_Witness ==
    /\ page = "single"
    /\ ~IsNull(last)
    /\ last.val.outcome = Resolved(<<"<svg", "<g", "<rect", "</svg>">>)
    /\ View = "completed"
    /\ PreviewProps.svgContent = <<"<svg", "<g", "<rect", "</svg>">>

(***************************************************************************)
(* C4: in the single-file page, when processImage has rejected the state   *)
(* is error and the error card is rendered (not the loading indicator, not *)
(* the dropzone) with the AppError's userMessage, or the generic message   *)
(* for any other error; the uploaded file is kept, so the card offers      *)
(* Retry whenever the state is error.                                      *)
(***************************************************************************)
C4_RejectionShowsErrorCard ==
    page = "single" =>
        /\ ~IsNull(last) /\ last.val.outcome.kind = "rejected" =>
             LET e == last.val.outcome.error
             IN  /\ appState.processingState = ProcessingState.ERROR
                 /\ View = "error"
                 /\ appState.error =
                      Some(IF e.isAppError THEN e.userMessage
                           ELSE "An unexpected error occurred during image processing")
                 /\ appState.uploadedFile = last.val.file
        /\ appState.processingState = ProcessingState.ERROR =>
             /\ View = "error"
             /\ RetryOffered

C4_Witness ==
    /\ page = "single"
    /\ ~IsNull(last)
    /\ last.val.outcome.kind = "rejected"
    /\ last.val.outcome.error.isAppError
    /\ appState.error = Some("Your browser does not support canvas rendering")
    /\ RetryOffered

(***************************************************************************)
(* C5: in the batch page a result that carries an error has its message    *)
(* rendered and is not presented as a success: it is in neither the        *)
(* preview nor the grid, and the banner does not announce a successful     *)
(* conversion.                                                             *)
(***************************************************************************)
C5_FailedFileIsSurfaced ==
    page = "batch" /\ View = "results" =>
        \A k \in 1..Len(appState.conversionResults) :
            LET result == appState.conversionResults[k]
            IN  ~HasNoError(result) =>
                    /\ result.error.val \in GridErrors
                    /\ ~InSeq(result, PreviewResults)
                    /\ ~InSeq(result, GridResults)
                    /\ Banner # Msg("Conversion completed successfully")

(***************************************************************************)
(* C11: in the single-file page a Retry step leaves the error card, finds   *)
(* no run pending, starts one run on the uploaded file,                    *)
(* keeps that file, clears error and result and renders the loading        *)
(* indicator; and the step by which a run settles makes the outcome the    *)
(* page state: the resolved SVG without error, or the error message        *)
(* without result.                                                         *)
(***************************************************************************)
C11_RetryRerunsConversion ==
    [][page = "single" =>
         /\ did' = "handleRetry" =>
              /\ View = "error"
              /\ InFlight = {}
              /\ runs' = Append(runs, Run(<<appState.uploadedFile>>))
              /\ InFlight' = {Len(runs')}
              /\ appState'.uploadedFile = appState.uploadedFile
              /\ IsNull(appState'.error)
              /\ IsNull(appState'.svgResult)
              /\ View' = "loading"
         /\ InFlight # {} /\ InFlight' = {} =>
              LET outcome == last'.val.outcome
              IN  IF outcome.kind = "resolved"
                  THEN /\ appState'.svgResult = Some(outcome.svg)
                       /\ IsNull(appState'.error)
                       /\ View' = "completed"
                  ELSE /\ appState'.error = Some(errorMessageOf(outcome.error))
                       /\ IsNull(appState'.svgResult)
                       /\ View' = "error"
    ]_vars

\* Retry has started the second run
C11_Witness ==
    /\ page = "single"
    /\ did = "handleRetry"
    /\ InFlight = {2}
    /\ View = "loading"

(***************************************************************************)
(* C12: after handleNewConversion, in both page versions, appState, the    *)
(* current session and the processing message have their values of the     *)
(* first render, and the enabled dropzone is rendered (so no preview,      *)
(* loading indicator or error card is).                                    *)
(***************************************************************************)
C12_NewConversionRestoresFirstRender ==
    did = "handleNewConversion" =>
        /\ appState = InitialAppState(page)
        /\ currentSession = Null
        /\ processingMessage = Msg("Processing image...")
        /\ View = "dropzone"
        /\ ~isDropzoneDisabled

(***************************************************************************)
(* C13: when exactly one file is dropped on, or chosen in the file input   *)
(* of, an enabled dropzone, the file is validated with                     *)
(* validateFile(file, acceptedTypes, maxFileSize); onFileSelect is called  *)
(* with that File if it is valid and is not called if it is not.           *)
(***************************************************************************)
\* a File as the argument of onFileSelect
FileArgument(file) == [type |-> "File", items |-> <<file>>]

C13_SingleFileIsValidatedAndPassedOn ==
    /\ ~IsNull(ev)
    /\ ev.handler \in {"handleDrop", "handleFileInputChange"}
    /\ ~dz.disabled
    /\ ~IsNull(sel)
    /\ Len(sel.files) = 1
    => LET file == sel.files[1]
           validation == validateFile(file, supportedFormats, maxFileSize)
       IN  /\ sel.validations[1] = validation
           /\ IF validation.isValid
              THEN ev.called = Some(FileArgument(file))
              ELSE IsNull(ev.called)

(***************************************************************************)
(* C14: after a drop the drag-over and drag-active flags are false.  On an *)
(* enabled dropzone a drop without files leaves the error 'No files were   *)
(* dropped', and a drop of several files while multiple is false leaves    *)
(* 'Please drop only one file at a time'; in both cases no file has been   *)
(* validated and onFileSelect has not been called.                         *)
(***************************************************************************)
C14_DropErrors ==
    ~IsNull(ev) /\ ev.handler = "handleDrop" =>
        /\ ~dz.isDragOver
        /\ ~dz.isDragActive
        /\ ~dz.disabled /\ Len(ev.files) = 0 =>
             /\ dz.error = Some(<< [name |-> Null, text |-> "No files were dropped"] >>)
             /\ IsNull(sel)
             /\ IsNull(ev.called)
        /\ ~dz.disabled /\ ~dz.multiple /\ Len(ev.files) > 1 =>
             /\ dz.error = Some(<< [name |-> Null,
                                    text |-> "Please drop only one file at a time"] >>)
             /\ IsNull(sel)
             /\ IsNull(ev.called)

\* two valid files have been dropped on a single-file dropzone
C14_Witness ==
    /\ ~IsNull(ev)
    /\ ev.handler = "handleDrop"
    /\ ~dz.disabled
    /\ ~dz.multiple
    /\ ev.files = << File(NamePng, TypePng, 1024), File(NamePng, TypePng, maxFileSize) >>
    /\ TruthyText([null |-> FALSE, val |-> dz.error.val[1].text])

(***************************************************************************)
(* C15: while the dropzone is disabled, drag enter, drag over and drag     *)
(* leave leave isDragOver and isDragActive as they are, a drop validates   *)
(* nothing, does not call onFileSelect and sets no error, and a click or   *)
(* an Enter/Space key press does not open the file picker.                 *)
(***************************************************************************)
C15_DisabledDropzoneIgnoresInput ==
    [][dz.mounted /\ dz.disabled =>
         /\ ev'.handler \in {"handleDragEnter", "handleDragOver", "handleDragLeave"} =>
              /\ dz'.isDragOver = dz.isDragOver
              /\ dz'.isDragActive = dz.isDragActive
         /\ ev'.handler = "handleDrop" =>
              /\ IsNull(sel')
              /\ IsNull(ev'.called)
              /\ dz'.error = dz.error
         /\ ev'.handler = "handleClick" => ~ev'.opened
         /\ IsNull(ev'.called)
    ]_vars

\* a file has been dropped on the disabled dropzone
C15_Witness ==
    /\ dz.mounted
    /\ dz.disabled
    /\ ~IsNull(ev)
    /\ ev.handler = "handleDrop"
    /\ Len(ev.files) = 1
    /\ IsNull(dz.error)
    /\ IsNull(sel)

(***************************************************************************)
(* fileHandlingService: download.                                          *)
(*                                                                         *)
(* A call returns a value or throws.  createDownloadBlob and               *)
(* triggerDownload depend on the browser: blobThrows says that the Blob    *)
(* constructor throws, failAt which of the DOM operations of               *)
(* triggerDownload throws (0: none).  triggerDownload yields the DOM       *)
(* operations it completed, in order, and how it ended.                    *)
(***************************************************************************)
Returned(value) == [kind |-> "returned", value |-> value]
Threw(error) == [kind |-> "threw", error |-> error]

Blob(content, mimeType) == [null |-> FALSE, content |-> content, type |-> mimeType]

createDownloadBlob(content, mimeType, blobThrows) ==
    IF content = <<>>
    THEN Threw(AppError("No content provided for blob creation", FILE_VALIDATION,
                        "No content available to download", FALSE))
    ELSE IF blobThrows
    THEN Threw(AppError("Failed to create blob", BROWSER_COMPATIBILITY,
                        "Unable to prepare file for download. Your browser may not support this feature.",
                        FALSE))
    ELSE Returned(Blob(content, mimeType))

\* the object URL created for a blob, and the hidden anchor
ObjectURL(blob) == [url |-> "blob:", blob |-> blob]
Anchor(url, fileName) == [href |-> url, download |-> fileName, display |-> "none"]

DomOp(op, arg) == [op |-> op, arg |-> arg]

\* the DOM operations of the try block of triggerDownload, in program order
DownloadOps_revokeBeforeClick(blob, fileName) ==
    LET url == ObjectURL(blob)
        anchor == Anchor(url, fileName)
    IN  << DomOp("createObjectURL", [blob |-> blob]),
           DomOp("createElement", [tag |-> "a"]),
           DomOp("appendChild", anchor),
           DomOp("revokeObjectURL", url),
           DomOp("click", anchor),
           DomOp("removeChild", anchor) >>

DownloadOps(blob, fileName) ==
    LET url == ObjectURL(blob)
        anchor == Anchor(url, fileName)
    IN  << DomOp("createObjectURL", [blob |-> blob]),
           DomOp("createElement", [tag |-> "a"]),
           DomOp("appendChild", anchor),
           DomOp("click", anchor),
           DomOp("removeChild", anchor),
           DomOp("revokeObjectURL", url) >>

NumDownloadOps == 6

triggerDownload(blob, fileName, failAt) ==
    IF IsNull(blob)
    THEN [log |-> <<>>,
          result |-> Threw(AppError("No blob provided for download", FILE_VALIDATION,
                                    "No file available to download", FALSE))]
    ELSE IF fileName = <<>>
    THEN [log |-> <<>>,
          result |-> Threw(AppError("No filename provided for download", FILE_VALIDATION,
                                    "Unable to determine filename for download", FALSE))]
    ELSE IF failAt = 0
    THEN [log |-> DownloadOps(blob, fileName), result |-> Returned("undefined")]
    ELSE [log |-> SubSeq(DownloadOps(blob, fileName), 1, failAt - 1),
          result |-> Threw(AppError("Failed to trigger download", BROWSER_COMPATIBILITY,
                                    "Unable to download file. Your browser may not support this feature.",
                                    FALSE))]

(***************************************************************************)
(* DownloadButton.                                                         *)
(*                                                                         *)
(* dl holds the props svgContent, fileName and disabled, the state         *)
(* isDownloading, the number of setTimeout callbacks not yet run, and as   *)
(* history the numbers of clicks, of downloads started and of callbacks    *)
(* run, and the service calls and DOM operations of the latest callback.   *)
(***************************************************************************)
ServiceCall(name, args, result) == [name |-> name, args |-> args, result |-> result]

\* if (!svgContent || !fileName || disabled || isDownloading) return
ClickIgnored_whileIdle ==
    dl.svgContent = <<>> \/ dl.fileName = <<>> \/ dl.disabled

ClickIgnored ==
    dl.svgContent = <<>> \/ dl.fileName = <<>> \/ dl.disabled \/ dl.isDownloading

isButtonDisabled ==
    dl.disabled \/ dl.isDownloading \/ dl.svgContent = <<>> \/ dl.fileName = <<>>

ButtonLabel == IF dl.isDownloading THEN "Downloading..." ELSE "Download SVG"

\* handleDownload: the click handler
handleDownload ==
    /\ dl.mounted
    /\ dl.clicks < MaxClicks
    /\ dl' = IF ClickIgnored
             THEN [dl EXCEPT !.clicks = @ + 1]
             ELSE [dl EXCEPT !.clicks = @ + 1, !.isDownloading = TRUE,
                             !.timers = @ + 1, !.started = @ + 1]
    /\ UNCHANGED <<pageVars, proc, dz, sel, ev, fn, li>>

\* finally { setIsDownloading(false) }: the state after the attempt
AfterAttempt_onlyOnSuccess(threw) == threw

AfterAttempt(threw) == FALSE

\* the setTimeout callback of handleDownload
downloadTimeout ==
    /\ dl.mounted
    /\ dl.timers > 0
    /\ \E blobThrows \in BOOLEAN, failAt \in 0..NumDownloadOps :
         LET svgFileName == generateSvgFileName(dl.fileName)
             named == ServiceCall("generateSvgFileName", <<dl.fileName>>,
                                  Returned(svgFileName))
             blob == createDownloadBlob(dl.svgContent, "image/svg+xml", blobThrows)
             blobbed == ServiceCall("createDownloadBlob",
                                    <<dl.svgContent, "image/svg+xml">>, blob)
             download == triggerDownload(blob.value, svgFileName, failAt)
             triggered == ServiceCall("triggerDownload", <<blob.value, svgFileName>>,
                                      download.result)
             threw == blob.kind = "threw" \/ download.result.kind = "threw"
         IN  dl' = [dl EXCEPT
                      !.timers = @ - 1,
                      !.ran = @ + 1,
                      !.calls = IF blob.kind = "threw" THEN <<named, blobbed>>
                                ELSE <<named, blobbed, triggered>>,
                      !.dom = IF blob.kind = "threw" THEN <<>> ELSE download.log,
                      !.isDownloading = AfterAttempt(threw)]
    /\ UNCHANGED <<pageVars, proc, dz, sel, ev, fn, li>>

DownloadNames == {<<>>, NamePng, NameUpperPng}
DownloadSvgs == {<<>>, <<"<svg", "<path", "</svg>">>}

InitDownload ==
    /\ PageIdle /\ ProcIdle /\ DzIdle /\ NamesIdle /\ LiIdle
    /\ \E svgContent \in DownloadSvgs, fileName \in DownloadNames, disabled \in BOOLEAN :
         dl = [mounted |-> TRUE, svgContent |-> svgContent, fileName |-> fileName,
               disabled |-> disabled, isDownloading |-> FALSE, timers |-> 0,
               clicks |-> 0, started |-> 0, ran |-> 0, calls |-> <<>>, dom |-> <<>>]

NextDownload ==
    \/ handleDownload
    \/ downloadTimeout

SpecDownload == InitDownload /\ [][NextDownload]_vars

\* the browser runs a scheduled timer callback
SpecDownloadLive == SpecDownload /\ WF_vars(downloadTimeout)

(***************************************************************************)
(* C16: a click on DownloadButton while it is disabled, svgContent or      *)
(* fileName is empty, or a download is in progress changes nothing: no     *)
(* callback is scheduled, so nothing is created or downloaded.  Any other  *)
(* click schedules exactly one callback, and a callback calls              *)
(* generateSvgFileName(fileName), createDownloadBlob(svgContent,           *)
(* 'image/svg+xml') and triggerDownload(blob, svgFileName) in that order,  *)
(* once each, without triggerDownload if blob creation threw.              *)
(***************************************************************************)
CallNames == [i \in 1..Len(dl.calls) |-> dl.calls[i].name]

C16_ClickStartsOneDownload ==
    /\ [][dl.mounted /\ dl'.clicks > dl.clicks =>
            IF dl.disabled \/ dl.svgContent = <<>> \/ dl.fileName = <<>> \/ dl.isDownloading
            THEN dl' = [dl EXCEPT !.clicks = @ + 1]
            ELSE /\ dl'.started = dl.started + 1
                 /\ dl'.timers = dl.timers + 1
                 /\ dl'.ran = dl.ran /\ dl'.calls = dl.calls /\ dl'.dom = dl.dom
         ]_vars
    /\ [](dl.mounted =>
            /\ dl.timers = dl.started - dl.ran
            /\ dl.timers \in {0, 1}
            /\ dl.started <= dl.clicks
            /\ dl.ran = 0 => dl.calls = <<>> /\ dl.dom = <<>>
            /\ dl.ran > 0 =>
                 /\ dl.calls[1].name = "generateSvgFileName"
                 /\ dl.calls[1].args = <<dl.fileName>>
                 /\ dl.calls[2].name = "createDownloadBlob"
                 /\ dl.calls[2].args = <<dl.svgContent, "image/svg+xml">>
                 /\ IF dl.calls[2].result.kind = "threw"
                    THEN Len(dl.calls) = 2 /\ dl.dom = <<>>
                    ELSE /\ Len(dl.calls) = 3
                         /\ dl.calls[3].name = "triggerDownload"
                         /\ dl.calls[3].args = <<dl.calls[2].result.value,
                                                 dl.calls[1].result.value>>)

\* the third click came while the second download was in progress
C16_Witness ==
    /\ dl.mounted
    /\ dl.clicks = 3
    /\ dl.started = 2
    /\ dl.ran = 1
    /\ dl.isDownloading
    /\ CallNames = <<"generateSvgFileName", "createDownloadBlob", "triggerDownload">>

(***************************************************************************)
(* C17: while a started download has not been attempted the button is      *)
(* disabled and labelled 'Downloading...'; once the attempt has run,       *)
(* whether it succeeded or threw, the button is enabled and labelled       *)
(* 'Download SVG' again; and the downloading state always ends.            *)
(***************************************************************************)
C17_DownloadingStateEnds ==
    /\ [](dl.mounted /\ dl.timers > 0 =>
            /\ dl.isDownloading
            /\ isButtonDisabled
            /\ ButtonLabel = "Downloading...")
    /\ [](dl.mounted /\ dl.timers = 0 =>
            /\ ~dl.isDownloading
            /\ ButtonLabel = "Download SVG"
            /\ dl.started > 0 => ~isButtonDisabled)
    /\ (dl.mounted /\ dl.isDownloading) ~> (dl.mounted /\ ~dl.isDownloading)

\* an attempt in which triggerDownload threw has left the button idle
C17_Witness ==
    /\ dl.mounted
    /\ dl.ran = 1
    /\ Len(dl.calls) = 3
    /\ dl.calls[3].result.kind = "threw"
    /\ ~dl.isDownloading
    /\ ~isButtonDisabled
    /\ ButtonLabel = "Download SVG"

(***************************************************************************)
(* SpecService: validateFileType and triggerDownload called directly, on   *)
(* every call of the sets below.                                           *)
(***************************************************************************)
\* entries of allowedTypes: extensions with a dot in both cases, bare
\* extensions, MIME types, and a bare entry that is a suffix of '.png'
\* without its dot
AllowedEntries ==
    { <<".", "p", "n", "g">>, <<".", "P", "N", "G">>, <<"P", "N", "G">>,
      <<"i", "m", "a", "g", "e", "/", "P", "N", "G">>, TypeText, <<"n", "g">> }

AllowedLists == UNION {[1..k -> AllowedEntries] : k \in 0..MaxTypes}

TypeCheckFiles ==
    { Null,
      File(NamePng, TypePng, 1024),
      File(NameUpperPng, TypeNone, 1024),
      File(NameTxt, TypeText, 1024),
      File(NameTxt, TypePng, 1024) }

NameSvg == <<"a", ".", "s", "v", "g">>

TriggerBlobs == {Null, Blob(<<"<svg", "<path", "</svg>">>, "image/svg+xml")}
TriggerNames == {<<>>, NameSvg}

InitService ==
    /\ PageIdle /\ ProcIdle /\ DzIdle /\ DlIdle /\ LiIdle
    /\ \/ \E file \in TypeCheckFiles, allowedTypes \in AllowedLists :
            fn = [pc |-> "call", name |-> "validateFileType",
                  file |-> file, allowedTypes |-> allowedTypes]
       \/ \E blob \in TriggerBlobs, fileName \in TriggerNames, failAt \in 0..NumDownloadOps :
            fn = [pc |-> "call", name |-> "triggerDownload",
                  blob |-> blob, fileName |-> fileName, failAt |-> failAt]

ApplyValidateFileType ==
    /\ fn.pc = "call"
    /\ fn.name = "validateFileType"
    /\ fn' = [pc |-> "done", name |-> fn.name, file |-> fn.file,
              allowedTypes |-> fn.allowedTypes,
              result |-> validateFileType(fn.file, fn.allowedTypes)]
    /\ UNCHANGED <<pageVars, proc, dz, sel, ev, dl, li>>

ApplyTriggerDownload ==
    /\ fn.pc = "call"
    /\ fn.name = "triggerDownload"
    /\ LET download == triggerDownload(fn.blob, fn.fileName, fn.failAt)
       IN  fn' = [pc |-> "done", name |-> fn.name, blob |-> fn.blob,
                  fileName |-> fn.fileName, failAt |-> fn.failAt,
                  log |-> download.log, result |-> download.result]
    /\ UNCHANGED <<pageVars, proc, dz, sel, ev, dl, li>>

NextService ==
    \/ ApplyValidateFileType
    \/ ApplyTriggerDownload

SpecService == InitService /\ [][NextService]_vars

(***************************************************************************)
(* C18: validateFileType is false for a missing file, true for an empty    *)
(* list of allowed types, and otherwise true exactly when some entry,      *)
(* case ignored, equals the file's MIME type, or starts with '.' and is a  *)
(* suffix of the file name, or has no '/' and no leading '.' and the file  *)
(* name ends with '.' followed by it.                                      *)
(***************************************************************************)
IgnoringCase(s) == [i \in 1..Len(s) |-> LowerChar(s[i])]

IsSuffix(suffix, s) ==
    /\ Len(suffix) <= Len(s)
    /\ \A i \in 1..Len(suffix) : s[Len(s) - Len(suffix) + i] = suffix[i]

HasChar(s, c) == \E i \in 1..Len(s) : s[i] = c

EntryAllows(entry, file) ==
    LET e == IgnoringCase(entry)
        name == IgnoringCase(file.name)
    IN  \/ e = IgnoringCase(file.type)
        \/ Len(e) > 0 /\ e[1] = "." /\ IsSuffix(e, name)
        \/ /\ ~HasChar(e, "/")
           /\ ~(Len(e) > 0 /\ e[1] = ".")
           /\ IsSuffix(<<".">> \o e, name)

C18_ValidateFileType ==
    fn.pc = "done" /\ fn.name = "validateFileType" =>
        fn.result =
            IF IsNull(fn.file) THEN FALSE
            ELSE IF fn.allowedTypes = <<>> THEN TRUE
            ELSE \E k \in 1..Len(fn.allowedTypes) : EntryAllows(fn.allowedTypes[k], fn.file)

\* A.PNG without MIME type is accepted through the bare extension PNG
C18_Witness ==
    /\ fn.pc = "done"
    /\ fn.name = "validateFileType"
    /\ fn.file = File(NameUpperPng, TypeNone, 1024)
    /\ fn.allowedTypes = << TypeText, <<"P", "N", "G">> >>
    /\ fn.result = TRUE

(***************************************************************************)
(* C19: triggerDownload throws a non-recoverable file-validation AppError  *)
(* for a missing blob or an empty file name, having done nothing.          *)
(* Otherwise it creates the object URL, creates and appends a hidden       *)
(* anchor with that URL and the given download name, clicks it, removes    *)
(* it and revokes the URL, in that order; if one of these operations       *)
(* throws, the later ones are not done and a non-recoverable               *)
(* browser-compatibility AppError is thrown.                               *)
(***************************************************************************)
OpNames(log) == [i \in 1..Len(log) |-> log[i].op]

C19_TriggerDownloadSteps ==
    fn.pc = "done" /\ fn.name = "triggerDownload" =>
        IF IsNull(fn.blob) \/ fn.fileName = <<>>
        THEN /\ fn.log = <<>>
             /\ fn.result.kind = "threw"
             /\ fn.result.error.isAppError
             /\ fn.result.error.category = FILE_VALIDATION
             /\ ~fn.result.error.recoverable
        ELSE LET steps == <<"createObjectURL", "createElement", "appendChild",
                            "click", "removeChild", "revokeObjectURL">>
                 done == IF fn.failAt = 0 THEN 6 ELSE fn.failAt - 1
             IN  /\ OpNames(fn.log) = SubSeq(steps, 1, done)
                 /\ done >= 1 => fn.log[1].arg = [blob |-> fn.blob]
                 /\ \A i \in 3..done :
                      i <= 5 => /\ fn.log[i].arg.href.blob = fn.blob
                                /\ fn.log[i].arg.download = fn.fileName
                                /\ fn.log[i].arg.display = "none"
                 /\ done = 6 => fn.log[6].arg = fn.log[3].arg.href
                 /\ IF fn.failAt = 0
                    THEN fn.result.kind = "returned"
                    ELSE /\ fn.result.kind = "threw"
                         /\ fn.result.error.isAppError
                         /\ fn.result.error.category = BROWSER_COMPATIBILITY
                         /\ ~fn.result.error.recoverable

\* a complete download
C19_Witness ==
    /\ fn.pc = "done"
    /\ fn.name = "triggerDownload"
    /\ fn.fileName = NameSvg
    /\ Len(fn.log) = 6
    /\ fn.log[4].op = "click"
    /\ fn.log[4].arg.download = NameSvg
    /\ fn.result.kind = "returned"

(***************************************************************************)
(* LoadingIndicator.  li.isVisible is the prop of the latest commit,       *)
(* li.progress the committed state, li.interval whether a setInterval      *)
(* timer of the component is active, and li.pending whether the passive    *)
(* effect of the latest commit (or the cleanup of an unmount) has yet to   *)
(* run.  React runs passive effects after the commit and before the next   *)
(* render; a timer callback that is due may run in between.                *)
(***************************************************************************)
nextProgress(prev) ==
    LET newProgress == (prev + 2) % 200
    IN  IF newProgress > 100 THEN 200 - newProgress ELSE newProgress

\* hiddenAt is history: the progress at the latest render that hid the
\* indicator, -1 before the first
Indicator(mounted, isVisible, progress, interval, pending) ==
    [mounted |-> mounted, isVisible |-> isVisible, progress |-> progress,
     interval |-> interval, pending |-> pending, hiddenAt |-> -1]

\* first render: useState(0); the effect is scheduled
LoadingIndicatorMount ==
    /\ ~li.mounted
    /\ ~li.pending
    /\ \E isVisible \in BOOLEAN :
          li' = Indicator(TRUE, isVisible, 0, FALSE, TRUE)
    /\ UNCHANGED <<pageVars, proc, dz, sel, ev, fn, dl>>

\* a render with another isVisible: the dependency changed, so the cleanup
\* of the previous effect and the effect are scheduled
LoadingIndicatorRender ==
    /\ li.mounted
    /\ ~li.pending
    /\ li' = [li EXCEPT !.isVisible = ~li.isVisible, !.pending = TRUE,
                         !.hiddenAt = IF li.isVisible THEN li.progress ELSE @]
    /\ UNCHANGED <<pageVars, proc, dz, sel, ev, fn, dl>>

\* the variant keeps the progress of a hidden indicator
progressEffect_noReset(s) ==
    IF ~s.mounted THEN [s EXCEPT !.interval = FALSE, !.pending = FALSE]
    ELSE IF ~s.isVisible
         THEN [s EXCEPT !.interval = FALSE, !.pending = FALSE]
         ELSE [s EXCEPT !.interval = TRUE, !.pending = FALSE]

\* clearInterval of the previous effect, then the effect body
progressEffect(s) ==
    IF ~s.mounted THEN [s EXCEPT !.interval = FALSE, !.pending = FALSE]
    ELSE IF ~s.isVisible
         THEN [s EXCEPT !.interval = FALSE, !.progress = 0, !.pending = FALSE]
         ELSE [s EXCEPT !.interval = TRUE, !.pending = FALSE]

RunProgressEffect ==
    /\ li.pending
    /\ li' = progressEffect(li)
    /\ UNCHANGED <<pageVars, proc, dz, sel, ev, fn, dl>>

\* setProgress of an unmounted component changes nothing
intervalCallback ==
    /\ li.interval
    /\ li' = IF li.mounted THEN [li EXCEPT !.progress = nextProgress(li.progress)]
             ELSE li
    /\ UNCHANGED <<pageVars, proc, dz, sel, ev, fn, dl>>

LoadingIndicatorUnmount ==
    /\ li.mounted
    /\ ~li.pending
    /\ li' = [li EXCEPT !.mounted = FALSE, !.pending = li.interval]
    /\ UNCHANGED <<pageVars, proc, dz, sel, ev, fn, dl>>

InitIndicator ==
    /\ PageIdle /\ ProcIdle /\ DzIdle /\ NamesIdle /\ DlIdle
    /\ li = Indicator(FALSE, FALSE, 0, FALSE, FALSE)

NextIndicator ==
    \/ LoadingIndicatorMount
    \/ LoadingIndicatorRender
    \/ RunProgressEffect
    \/ intervalCallback
    \/ LoadingIndicatorUnmount

SpecIndicator == InitIndicator /\ [][NextIndicator]_vars

\* an active interval timer keeps calling its callback
SpecIndicatorLive == SpecIndicator /\ WF_vars(intervalCallback)

(***************************************************************************)
(* C20 as stated: the timer is off whenever the indicator is not visible   *)
(* or not mounted, the progress of an indicator that is and stays not      *)
(* visible does not change, and progress is 0 whenever the indicator       *)
(* becomes visible.  The first two parts do not hold: the effect that      *)
(* clears the timer runs after the commit that hid the indicator, and it   *)
(* is this effect that sets the progress of the hidden indicator to 0.     *)
(***************************************************************************)
Showing(s) == s.mounted /\ s.isVisible

C20_Original_ProgressFrozenWhileHidden ==
    /\ [](~Showing(li) => ~li.interval)
    /\ [][li.mounted /\ li'.mounted /\ ~li.isVisible /\ ~li'.isVisible
            => li'.progress = li.progress]_vars
    /\ [][~Showing(li) /\ Showing(li') => li'.progress = 0]_vars

(***************************************************************************)
(* C20: once the effect of the commit that hid or unmounted the indicator  *)
(* has run, its interval timer is cleared, and for a hidden indicator the  *)
(* progress is 0 and stays 0 until it is shown; progress is 0 whenever     *)
(* the indicator becomes visible, first shown or shown again.              *)
(***************************************************************************)
C20_TimerClearedAndProgressReset ==
    /\ [](~li.pending /\ ~Showing(li) => ~li.interval)
    /\ [](li.mounted /\ ~li.isVisible /\ ~li.pending => li.progress = 0)
    /\ [][li.mounted /\ ~li.isVisible /\ ~li.pending /\ li'.mounted /\ ~li'.isVisible
            => li'.progress = li.progress]_vars
    /\ [][~Showing(li) /\ Showing(li') => li'.progress = 0]_vars

\* hidden after the bar had advanced: timer cleared, progress back at 0
C20_Witness ==
    /\ li.mounted
    /\ ~li.isVisible
    /\ ~li.pending
    /\ ~li.interval
    /\ li.progress = 0
    /\ li.hiddenAt > 0

(***************************************************************************)
(* C21: for every original file name the download names given by           *)
(* DownloadButton (generateSvgFileName), by the download button of         *)
(* SVGPreview, by the default download of SVGGrid and by Download All of   *)
(* the batch page are equal.                                               *)
(***************************************************************************)
C21_DownloadNamesAgree ==
    fn.pc = "downloads" =>
        /\ fn.preview = fn.button
        /\ fn.grid = fn.button
        /\ fn.all = fn.button

\* 'a.b/' has a last "." that is no extension: all four append '.svg'
C21_Witness ==
    /\ fn.pc = "downloads"
    /\ fn.name = <<"a", ".", "b", "/">>
    /\ fn.button = <<"a", ".", "b", "/", ".", "s", "v", "g">>
    /\ fn.all = fn.button

(***************************************************************************)
(* C22: on the batch page the files of a selection are converted one       *)
(* after the other in the order of the selection, each exactly once: while *)
(* the run waits for file i the results are those of files 1..i-1, in      *)
(* that order, and never more than the uploaded files.  A rejection of one *)
(* file adds a result and the run goes on with the next file.  When the    *)
(* run ends conversionResults has one entry per selected file in the       *)
(* order of the selection; the entry of a failed file has an error         *)
(* message and empty svgContent.                                           *)
(***************************************************************************)
ResultsOfFiles(results, r, files, n) ==
    /\ Len(results) = n
    /\ \A k \in 1..n :
         /\ results[k].file = files[k]
         /\ results[k].id = <<r, k>>
         /\ \/ /\ IsNull(results[k].error)
               /\ results[k].svgContent \in PageSvgs
            \/ /\ ~IsNull(results[k].error)
               /\ results[k].error.val # ""
               /\ results[k].svgContent = <<>>

BatchFinished == page = "batch" /\ did = "settled" /\ InFlight = {}

C22_BatchSurvivesFailures ==
    /\ [](page = "batch" =>
            /\ \A r \in InFlight :
                 /\ appState.uploadedFiles = runs[r].files
                 /\ ResultsOfFiles(appState.conversionResults, r, runs[r].files,
                                   runs[r].i - 1)
            /\ appState.isProcessing =>
                 Len(appState.conversionResults) <= Len(appState.uploadedFiles)
            /\ BatchFinished =>
                 /\ appState.processingState = ProcessingState.COMPLETED
                 /\ ResultsOfFiles(appState.conversionResults, Len(runs),
                                   appState.uploadedFiles, Len(appState.uploadedFiles)))
    /\ [][page = "batch" /\ did' = "settled" /\ last'.val.outcome.kind = "rejected" =>
            \A r \in InFlight :
               IF runs[r].i < Len(runs[r].files)
               THEN /\ r \in InFlight'
                    /\ runs'[r].i = runs[r].i + 1
                    /\ appState'.isProcessing
               ELSE /\ InFlight' = {}
                    /\ appState'.processingState = ProcessingState.COMPLETED
                    /\ IsNull(appState'.error)]_vars

\* a batch of two whose first file failed and whose second was converted
C22_Witness ==
    /\ BatchFinished
    /\ Len(appState.uploadedFiles) = 2
    /\ Len(appState.conversionResults) = 2
    /\ ~IsNull(appState.conversionResults[1].error)
    /\ IsNull(appState.conversionResults[2].error)
    /\ appState.conversionResults[2].svgContent \in PageSvgs

(***************************************************************************)
(* C23: provided every processImage call settles, every run started by     *)
(* handleFileSelect ends, and it ends with isProcessing false: on the      *)
(* single-file page in the completed or the error state, on the batch page *)
(* in the completed state with currentlyProcessing cleared.  So the        *)
(* loading view is always left again.                                      *)
(***************************************************************************)
RunEnded ==
    /\ InFlight = {}
    /\ ~appState.isProcessing
    /\ View # "loading"
    /\ IF page = "single"
       THEN appState.processingState \in {ProcessingState.COMPLETED, ProcessingState.ERROR}
       ELSE /\ appState.processingState = ProcessingState.COMPLETED
            /\ IsNull(appState.currentlyProcessing)

C23_EveryRunEnds ==
    /\ [][InFlight # {} /\ InFlight' = {} => RunEnded']_vars
    /\ [](appState.isProcessing => InFlight # {})
    /\ (InFlight # {}) ~> (did = "settled" /\ RunEnded)

\* a single-file run that ended in the error state
C23_Witness ==
    /\ page = "single"
    /\ did = "settled"
    /\ RunEnded
    /\ appState.processingState = ProcessingState.ERROR
    /\ Len(runs) = 1

(***************************************************************************)
(* C24: every file that the dropzone passes to onFileSelect under the      *)
(* application's configuration (the extensions of supportedFormats, the    *)
(* 10MB cap) is also accepted by imageProcessingService.validateFile, so   *)
(* processImage does not reject it for its type or its size.               *)
(***************************************************************************)
C24_DropzoneAcceptanceImpliesServiceAcceptance ==
    ~IsNull(sel) /\ ~IsNull(sel.passed) =>
        \A k \in 1..Len(sel.passed.val) :
            serviceValidateFile(sel.passed.val[k]).isValid

(***************************************************************************)
(* C25: when processImage has settled, an object URL it created for the    *)
(* file has been revoked; after a successful conversion the canvas has     *)
(* been cleared; and when the validation failed neither an object URL nor  *)
(* a canvas was created.                                                   *)
(***************************************************************************)
C25_ResourcesReleasedWhenSettled ==
    proc.pc = "done" =>
        /\ proc.url # "none" => proc.url = "revoked"
        /\ proc.outcome.kind = "resolved" => proc.canvas = "cleared"
        /\ proc.cause = "validation" => proc.url = "none" /\ proc.canvas = "none"

(***************************************************************************)
(* C26: on the batch page a removal never empties the stored results: the  *)
(* remove button exists only while at least two results are stored, a      *)
(* removal takes away exactly one, so in the completed state               *)
(* conversionResults has at least one entry; and the dropzone is the       *)
(* displayed view only while processingState is idle and no uploaded files *)
(* are kept.                                                               *)
(***************************************************************************)
RemoveOffered == page = "batch" /\ View = "results" /\ Len(GridResults) > 0

C26_RemovalsNeverEmptyResults ==
    /\ [](page = "batch" =>
            /\ RemoveOffered => Len(appState.conversionResults) >= 2
            /\ appState.processingState = ProcessingState.COMPLETED =>
                 Len(appState.conversionResults) >= 1
            /\ View = "dropzone" =>
                 /\ appState.processingState = ProcessingState.IDLE
                 /\ appState.uploadedFiles = <<>>
                 /\ appState.conversionResults = <<>>)
    /\ [][did' = "onRemove" =>
            /\ RemoveOffered
            /\ Len(appState'.conversionResults) = Len(appState.conversionResults) - 1
            /\ Len(appState'.conversionResults) >= 1
            /\ View' = "results"]_vars

\* one of two results has been removed; the other is shown in the preview
C26_Witness ==
    /\ page = "batch"
    /\ did = "onRemove"
    /\ Len(appState.conversionResults) = 1
    /\ Len(appState.uploadedFiles) = 2
    /\ appState.processingState = ProcessingState.COMPLETED
    /\ ~RemoveOffered

(***************************************************************************)
(* C27: for a selection FileDropzone calls onFileSelect at most once: with *)
(* the files that passed validation, all of them and only them, in the     *)
(* order of the selection, and not at all when none passed.  Its error     *)
(* names the files that failed, all of them and only them, each with its   *)
(* validation error; a selection without failures leaves no error,         *)
(* whatever error an earlier selection had left.                           *)
(***************************************************************************)
PassedAt(s) == {i \in 1..Len(s.files) : s.validations[i].isValid}
FailedAt(s) == {i \in 1..Len(s.files) : ~s.validations[i].isValid}

\* the n-th smallest element of a set of positions
Nth(positions, n) ==
    CHOOSE i \in positions : Cardinality({k \in positions : k < i}) = n - 1

C27_SelectionSplitsValidFromFailed ==
    /\ [](~IsNull(sel) =>
            /\ \A i \in 1..Len(sel.files) :
                 sel.validations[i] = validateFile(sel.files[i], supportedFormats, maxFileSize)
            /\ IF PassedAt(sel) = {} THEN IsNull(ev.called)
               ELSE /\ ~IsNull(ev.called)
                    /\ ev.called.val.type = "File[]"
                    /\ Len(ev.called.val.items) = Cardinality(PassedAt(sel))
                    /\ \A n \in 1..Len(ev.called.val.items) :
                         ev.called.val.items[n] = sel.files[Nth(PassedAt(sel), n)]
            /\ IF FailedAt(sel) = {} THEN IsNull(dz.error)
               ELSE /\ ~IsNull(dz.error)
                    /\ Len(dz.error.val) = Cardinality(FailedAt(sel))
                    /\ \A n \in 1..Len(dz.error.val) :
                         LET i == Nth(FailedAt(sel), n)
                         IN  dz.error.val[n] =
                               [name |-> Some(sel.files[i].name),
                                text |-> sel.validations[i].error])
    /\ [][~IsNull(dz.error) /\ ~IsNull(sel') /\ FailedAt(sel') = {}
            => IsNull(dz'.error)]_vars

\* two files chosen, the first too large: the second is handed over alone
\* and the error names the first
C27_Witness ==
    /\ ~IsNull(sel)
    /\ dz.multiple
    /\ sel.files = << File(NamePng, TypePng, maxFileSize + 1), File(NamePng, TypePng, 1024) >>
    /\ ev.called = Some(ArrayOf(<< File(NamePng, TypePng, 1024) >>))
    /\ ~IsNull(dz.error)
    /\ Len(dz.error.val) = 1
    /\ dz.error.val[1].name = Some(NamePng)

(***************************************************************************)
(* C28: the progress of the indicator stays within 0..100, and while the   *)
(* indicator stays visible with its timer running the value returns to 0   *)
(* again and again (it rises to 100, falls back to 0 and repeats).         *)
(***************************************************************************)
Animating == li.mounted /\ li.isVisible /\ li.interval

C28_ProgressSweepsBackToZero ==
    /\ [](li.mounted => li.progress \in 0..100)
    /\ []<>(~Animating \/ li.progress = 0)

====
